---------------------------- MODULE Spec2Model ----------------------------
(***************************************************************************)
(* Valuation engine of GetMyHouseValue: region classification of a         *)
(* postcode lookup response and the index-adjusted valuation of a property *)
(* record.                                                                 *)
(*                                                                         *)
(* The repository holds two variants of the engine:                        *)
(*   "current"  src/unnamed/part_000 (and src/src/App.jsx lines 1-279):    *)
(*              sparse HPI table, getPostcodeDetails, calculateValuation   *)
(*              with the no-date and no-price guards;                      *)
(*   "legacy"   src/src/App.jsx lines 281-600: yearly HPI table,           *)
(*              getRegionForPostcode, calculateValuation with chartData.   *)
(* The variable build says which variant runs.                             *)
(*                                                                         *)
(* Specifications: SpecValuate and SpecClassify apply calculateValuation   *)
(* and the region classification to every input; Spec is the App           *)
(* component: its state, the search handler with its two requests, and the *)
(* controls of the pages and steps; SpecFair is Spec with the fairness of  *)
(* the handler's continuations, and SpecSettling adds that every request   *)
(* settles; SpecKeepingFirst is Spec with a record of the first valuation  *)
(* of the session.                                                         *)
(*                                                                         *)
(* Numbers.  Index values have one decimal in the source and are held in   *)
(* tenths (38.2 is 382, 100 is 1000).  growthFactor is the unreduced       *)
(* fraction indexNew / indexOld.  undefined and NaN are the two sentinels  *)
(* below; no year, price or index of the model is negative.                *)
(***************************************************************************)
EXTENDS Integers, Sequences, FiniteSets, TLC

VARIABLES
    build,      \* which variant of the source runs: "current" or "legacy"
    tz,         \* the environment's offset from UTC, in hours
    fpTie,      \* how the double product price * growthFactor falls on an exact .5
    property,   \* argument of calculateValuation: the property record
    regionKey,  \* argument of calculateValuation: the region key
    ret,        \* value returned by calculateValuation
    retYear,    \* the wall-clock year of the call that returned ret
    lookup,         \* what the postcode lookup request comes to: its response
    inputPostcode,  \* argument of getPostcodeDetails / getRegionForPostcode
    details,        \* value returned by getPostcodeDetails / getRegionForPostcode
    pc,         \* "ready" before the call, "returned" after it; in the App, where
                \* handleSearch stands: "idle", "awaitLookup", "awaitProperties"
    HPI_DATA,   \* the module-level table object
    now,        \* the wall-clock year
    page,       \* App state: 'home', 'how-it-works', 'data', 'privacy'
    step,       \* App state: 1 = search, 2 = list, 3 = result
    postcode,   \* App state: text of the postcode input
    loading,    \* App state
    properties, \* App state: the list of property records
    selectedProp,   \* App state: a property record or null
    region,     \* App state: the region key
    net,        \* the request handleSearch awaits: "none", "pending", "settled"
    issued,     \* the requests the running (or last) handleSearch has issued, in order
    propsResponse,  \* what the properties request comes to: its response
    listRegion  \* history: the region key resolved by the handleSearch that set
                \* properties (the initial region before any has)

\* what calculateValuation and the classification read and write
engineVars == <<build, tz, fpTie, property, regionKey, ret, retYear, HPI_DATA, now>>

\* the App component's state
appVars == <<page, step, postcode, loading, properties, selectedProp, region>>

\* the running handleSearch and its requests
searchVars == <<lookup, inputPostcode, details, pc, net, issued, propsResponse,
                listRegion>>

vars == <<engineVars, appVars, searchVars>>

---------------------------------------------------------------------------
(* Bounds of the model *)

\* sale prices 0..MaxPrice are enumerated, besides SamplePrices
MaxPrice == 24

\* region labels are made of up to MaxPieces pieces of text
MaxPieces == 2

\* the property service lists up to MaxListed records
MaxListed == 2

\* the wall clock moves on by up to MaxYearsOn years
MaxYearsOn == 1

---------------------------------------------------------------------------
(* JavaScript values *)

\* the value of a missing property (indexData[year] of a year that is no key)
undefined == -1

\* the year of an Invalid Date
NaN == -2

\* x || y  : y when x is falsy (undefined, NaN, 0), else x
Falsy(x) == x = undefined \/ x = NaN \/ x = 0

\* mutant: the fallback of  x || y  is lost
OrElse_noFallback(x, y) == x

OrElse(x, y) == IF Falsy(x) THEN y ELSE x

\* arithmetic on undefined or NaN gives NaN
IsNumber(x) == x # undefined /\ x # NaN

\* Math.round of the non-negative fraction a / b (b > 0): the nearest integer,
\* an exact .5 rounds up.
MathRound(a, b) ==
    IF ~IsNumber(a) THEN NaN
    ELSE a \div b + (IF 2 * (a % b) >= b THEN 1 ELSE 0)

\* mutant: Math.floor in place of Math.round
MathFloorProduct(p, n, d) ==
    IF ~IsNumber(p) \/ ~IsNumber(n) \/ ~IsNumber(d) THEN NaN
    ELSE (p \div d) * n + ((p % d) * n) \div d

\* Math.round(p * (n / d)) in IEEE-754 doubles, for integers p >= 0, n > 0, d > 0.
\* The double product differs from the exact one by less than 1e-8 for every
\* price below 2^31, and an exact product that is no tie is at least 1/(2d) away
\* from one, so the result is the exact rounding, except on an exact .5, where
\* the representation error of n / d decides: fpTie.
\* (p is split as q * d + r to keep every intermediate value within 32 bits.)
MathRoundProduct(p, n, d) ==
    LET q     == p \div d
        r     == p % d
        whole == q * n + (r * n) \div d
        frac  == (r * n) % d
    IN  IF ~IsNumber(p) \/ ~IsNumber(n) \/ ~IsNumber(d) THEN NaN
        ELSE IF 2 * frac < d THEN whole
        ELSE IF 2 * frac > d THEN whole + 1
        ELSE IF fpTie = "up" THEN whole + 1 ELSE whole

---------------------------------------------------------------------------
(* Dates *)

\* property.lastSoldDate as received: a missing field, null, the empty string,
\* a string that is no date, or a date-only string YYYY-MM-DD
DateKinds == {"undefined", "null", "empty", "invalid", "date"}

NoDate(kind) == [kind |-> kind, y |-> 0, m |-> 0, d |-> 0]

IsoDate(y, m, d) == [kind |-> "date", y |-> y, m |-> m, d |-> d]

\* truthiness of property.lastSoldDate
Truthy(v) == v.kind \in {"invalid", "date"}

\* new Date(v): a date-only string is midnight UTC of that day, null is the
\* epoch, undefined and unparsable strings give an Invalid Date
NewDate(v) ==
    CASE v.kind = "date" -> [valid |-> TRUE, y |-> v.y, m |-> v.m, d |-> v.d]
      [] v.kind = "null" -> [valid |-> TRUE, y |-> 1970, m |-> 1, d |-> 1]
      [] OTHER           -> [valid |-> FALSE, y |-> 0, m |-> 0, d |-> 0]

\* Date.prototype.getFullYear: the year in local time. Midnight UTC of 1 January
\* is still 31 December of the year before, west of Greenwich.
getFullYear(date) ==
    IF ~date.valid THEN NaN
    ELSE IF tz < 0 /\ date.m = 1 /\ date.d = 1 THEN date.y - 1
    ELSE date.y

---------------------------------------------------------------------------
(* HPI tables, index values in tenths *)

\* mutant: the current year is read from the wall clock
currentYear_wallClock == now

\* mutant: the current year is the year before
currentYear_yearBefore == 2024 - 1

\* const currentYear = 2024;
currentYear == 2024

\* the literal 100 of  indexData[soldYear] || 100
fallbackIndexOld == 1000

\* the literal 143.2 of  indexData[currentYear] || 143.2
fallbackIndexNew == 1432

\* the literal 2015 of  property.lastSoldDate ? ... : 2015
defaultSoldYear == 2015

\* mutant: the sparse table lists 2005 for London, with the index of the
\* yearly table
HPI_DATA_current_with2005 ==
    ("London" :>
        (2000 :> 382 @@ 2005 :> 635 @@ 2010 :> 852 @@ 2015 :> 1000 @@ 2020 :> 1205
         @@ 2024 :> 1305))
    @@ ("South East" :>
        (2000 :> 421 @@ 2010 :> 841 @@ 2015 :> 1000 @@ 2020 :> 1215 @@ 2024 :> 1382))
    @@ ("UK Average" :>
        (2000 :> 435 @@ 2010 :> 845 @@ 2015 :> 1000 @@ 2020 :> 1225 @@ 2024 :> 1432))

\* mutant: the sparse table ends in 2020 for the South East
HPI_DATA_current_without2024 ==
    ("London" :>
        (2000 :> 382 @@ 2010 :> 852 @@ 2015 :> 1000 @@ 2020 :> 1205 @@ 2024 :> 1305))
    @@ ("South East" :>
        (2000 :> 421 @@ 2010 :> 841 @@ 2015 :> 1000 @@ 2020 :> 1215))
    @@ ("UK Average" :>
        (2000 :> 435 @@ 2010 :> 845 @@ 2015 :> 1000 @@ 2020 :> 1225 @@ 2024 :> 1432))

HPI_DATA_current ==
    ("London" :>
        (2000 :> 382 @@ 2010 :> 852 @@ 2015 :> 1000 @@ 2020 :> 1205 @@ 2024 :> 1305))
    @@ ("South East" :>
        (2000 :> 421 @@ 2010 :> 841 @@ 2015 :> 1000 @@ 2020 :> 1215 @@ 2024 :> 1382))
    @@ ("UK Average" :>
        (2000 :> 435 @@ 2010 :> 845 @@ 2015 :> 1000 @@ 2020 :> 1225 @@ 2024 :> 1432))

Yearly(values) == [y \in 2000..2024 |-> values[y - 1999]]

HPI_DATA_legacy ==
    ("London" :> Yearly(<<
        382, 425, 498, 541, 602, 635, 698, 842, 821, 765,
        852, 861, 903, 985, 1152, 1000, 1125, 1168, 1159, 1148,
        1205, 1262, 1345, 1312, 1305>>))
    @@ ("South East" :> Yearly(<<
        421, 475, 568, 642, 701, 725, 768, 852, 835, 752,
        841, 835, 852, 885, 962, 1000, 1105, 1152, 1165, 1158,
        1215, 1322, 1425, 1395, 1382>>))
    @@ ("UK Average" :> Yearly(<<
        435, 478, 562, 668, 752, 785, 828, 902, 885, 782,
        845, 832, 845, 878, 945, 1000, 1075, 1122, 1155, 1168,
        1225, 1342, 1455, 1425, 1432>>))

\* const HPI_DATA = { ... } of the variant that runs: the value the variable
\* HPI_DATA has when the module is loaded
HPI_DATA_literal == IF build = "current" THEN HPI_DATA_current ELSE HPI_DATA_legacy

\* mutant: a year that is no key takes the index of the latest listed year
\* before it
Lookup_latestBefore(obj, key) ==
    IF key \in DOMAIN obj THEN obj[key]
    ELSE IF \E y \in DOMAIN obj : y < key
         THEN obj[CHOOSE y \in DOMAIN obj :
                      y < key /\ \A z \in DOMAIN obj : z < key => z <= y]
         ELSE undefined

\* obj[key] of a table: undefined when key is no key of it
Lookup(obj, key) == IF key \in DOMAIN obj THEN obj[key] ELSE undefined

\* mutant: the table of a region that has none is the first one, London
indexDataOf_fallbackLondon(key) ==
    IF key \in DOMAIN HPI_DATA THEN HPI_DATA[key] ELSE HPI_DATA["London"]

\* HPI_DATA[regionKey] || HPI_DATA["UK Average"]
indexDataOf(key) ==
    IF key \in DOMAIN HPI_DATA THEN HPI_DATA[key] ELSE HPI_DATA["UK Average"]

---------------------------------------------------------------------------
(* calculateValuation *)

\* const soldYear = property.lastSoldDate
\*     ? new Date(property.lastSoldDate).getFullYear() : 2015;
soldYear_current(prop) ==
    IF Truthy(prop.lastSoldDate) THEN getFullYear(NewDate(prop.lastSoldDate))
    ELSE defaultSoldYear

\* const soldYear = new Date(property.lastSoldDate).getFullYear();
soldYear_legacy(prop) == getFullYear(NewDate(prop.lastSoldDate))

soldYearOf(prop) ==
    IF build = "current" THEN soldYear_current(prop) ELSE soldYear_legacy(prop)

\* Math.round(estimatedValue * 0.95). The double product of an integer below
\* 2^31 and 0.95 is within 1e-8 of the exact one, which is a multiple of 0.05,
\* and an exact .5 is hit exactly (the error is below half an ulp), so the
\* result is the exact rounding.
lowerBoundOf(estimatedValue) ==
    MathRound(IF IsNumber(estimatedValue) THEN estimatedValue * 95 ELSE NaN, 100)

\* mutant: the upper bound is a copy of the lower one
upperBoundOf_copyOfLower(estimatedValue) ==
    MathRound(IF IsNumber(estimatedValue) THEN estimatedValue * 95 ELSE NaN, 100)

\* Math.round(estimatedValue * 1.05), as for lowerBoundOf
upperBoundOf(estimatedValue) ==
    MathRound(IF IsNumber(estimatedValue) THEN estimatedValue * 105 ELSE NaN, 100)

\* mutant: the bounds are taken from the unrounded product
\* lastSoldPrice * growthFactor
calculateValuation_current_unroundedBounds(prop, key) ==
    LET soldYear       == soldYear_current(prop)
        indexData      == indexDataOf(key)
        indexOld       == OrElse(Lookup(indexData, soldYear), fallbackIndexOld)
        indexNew       == OrElse(Lookup(indexData, currentYear), fallbackIndexNew)
        estimatedValue == IF prop.lastSoldPrice > 0
                          THEN MathRoundProduct(prop.lastSoldPrice, indexNew, indexOld)
                          ELSE 0
    IN  [estimatedValue |-> estimatedValue,
         lowerBound     |-> MathRoundProduct(prop.lastSoldPrice * 95, indexNew,
                                             indexOld * 100),
         upperBound     |-> MathRoundProduct(prop.lastSoldPrice * 105, indexNew,
                                             indexOld * 100),
         growthFactor   |-> [num |-> indexNew, den |-> indexOld],
         chartData      |-> <<>>,
         regionKey      |-> ""]

calculateValuation_current(prop, key) ==
    LET soldYear       == soldYear_current(prop)
        indexData      == indexDataOf(key)
        indexOld       == OrElse(Lookup(indexData, soldYear), fallbackIndexOld)
        indexNew       == OrElse(Lookup(indexData, currentYear), fallbackIndexNew)
        growthFactor   == [num |-> indexNew, den |-> indexOld]
        estimatedValue == IF prop.lastSoldPrice > 0
                          THEN MathRoundProduct(prop.lastSoldPrice, indexNew, indexOld)
                          ELSE 0
    IN  [estimatedValue |-> estimatedValue,
         lowerBound     |-> lowerBoundOf(estimatedValue),
         upperBound     |-> upperBoundOf(estimatedValue),
         growthFactor   |-> growthFactor,
         chartData      |-> <<>>,
         regionKey      |-> ""]

\* mutant: the filter is year > soldYear
GreaterOrEqual_strict(a, b) == a # NaN /\ b # NaN /\ a > b

\* year >= soldYear of the chartData filter: false when soldYear is NaN
GreaterOrEqual(a, b) == a # NaN /\ b # NaN /\ a >= b

\* mutant: the years of the table, descending
RECURSIVE ObjectKeys_descending(_, _)
ObjectKeys_descending(obj, from) ==
    IF DOMAIN obj = {} THEN <<>>
    ELSE LET last == CHOOSE y \in DOMAIN obj : \A z \in DOMAIN obj : z <= y
         IN  <<last>> \o ObjectKeys_descending([y \in DOMAIN obj \ {last} |-> obj[y]], from)

\* Object.keys(indexData): the years of the table, ascending
RECURSIVE ObjectKeys(_, _)
ObjectKeys(obj, from) ==
    IF \A y \in DOMAIN obj : y < from THEN <<>>
    ELSE LET first == CHOOSE y \in DOMAIN obj :
                          y >= from /\ \A z \in DOMAIN obj : z >= from => y <= z
         IN  <<first>> \o ObjectKeys(obj, first + 1)

calculateValuation_legacy(prop, key) ==
    LET soldYear       == soldYear_legacy(prop)
        indexData      == indexDataOf(key)
        indexOld       == OrElse(Lookup(indexData, soldYear), fallbackIndexOld)
        indexNew       == OrElse(Lookup(indexData, currentYear), fallbackIndexNew)
        growthFactor   == [num |-> indexNew, den |-> indexOld]
        estimatedValue == MathRoundProduct(prop.lastSoldPrice, indexNew, indexOld)
        years          == SelectSeq(ObjectKeys(indexData, 0),
                                    LAMBDA year : GreaterOrEqual(year, soldYear))
        chartData      == [i \in 1..Len(years) |->
                              [year  |-> years[i],
                               index |-> indexData[years[i]],
                               value |-> MathRoundProduct(prop.lastSoldPrice,
                                                          indexData[years[i]], indexOld)]]
    IN  [estimatedValue |-> estimatedValue,
         lowerBound     |-> lowerBoundOf(estimatedValue),
         upperBound     |-> upperBoundOf(estimatedValue),
         growthFactor   |-> growthFactor,
         chartData      |-> chartData,
         regionKey      |-> key]

\* mutant: a record without a sale price returns early, before the growth
\* factor is computed
calculateValuation_earlyReturn(prop, key) ==
    IF prop.lastSoldPrice = 0
    THEN [estimatedValue |-> 0, lowerBound |-> 0, upperBound |-> 0,
          growthFactor |-> [num |-> 0, den |-> fallbackIndexOld],
          chartData |-> <<>>, regionKey |-> ""]
    ELSE IF build = "current" THEN calculateValuation_current(prop, key)
    ELSE calculateValuation_legacy(prop, key)

calculateValuation(prop, key) ==
    IF build = "current" THEN calculateValuation_current(prop, key)
    ELSE calculateValuation_legacy(prop, key)

---------------------------------------------------------------------------
(* Strings are sequences of characters *)

London == <<"L", "o", "n", "d", "o", "n">>

SouthEast == <<"S", "o", "u", "t", "h", " ", "E", "a", "s", "t">>

\* String.prototype.includes
Includes(s, needle) ==
    \E i \in 0..(Len(s) - Len(needle)) : SubSeq(s, i + 1, i + Len(needle)) = needle

---------------------------------------------------------------------------
(* The postcode lookup response *)

\* a field of data.result: missing or null, a string, or a truthy value that is
\* no string (it has no includes method)
AbsentField == [kind |-> "absent", text |-> <<>>]

NonStringField == [kind |-> "nonString", text |-> <<>>]

StringField(text) == [kind |-> "string", text |-> text]

\* truthiness of a field: the empty string is falsy too
TruthyField(f) == f.kind = "nonString" \/ (f.kind = "string" /\ f.text # <<>>)

\* outcome: "reject"     fetch rejects
\*          "unparsable" res.json() rejects
\*          "null"       the body is the JSON value null
\*          "json"       the body is an object with status and, when result is
\*                       TRUE, a result object with region, admin_district, postcode
Response(outcome, status, result, resultRegion, admin_district, resultPostcode) ==
    [outcome |-> outcome, status |-> status, result |-> result, region |-> resultRegion,
     admin_district |-> admin_district, postcode |-> resultPostcode]

FailedResponse(outcome) == Response(outcome, 0, FALSE, AbsentField, AbsentField, "")

\* how a block of statements completes: by a return with a value, by a throw,
\* or by running to its end
Return(value) == [completion |-> "return", value |-> value]

Throw == [completion |-> "throw", value |-> ""]

Normal == [completion |-> "normal", value |-> ""]

---------------------------------------------------------------------------
(* getPostcodeDetails (current), getRegionForPostcode (legacy) *)

\* the try block of getPostcodeDetails
getPostcodeDetails_try(resp) ==
    IF resp.outcome \in {"reject", "unparsable"} THEN Throw  \* await fetch, await res.json()
    ELSE IF resp.outcome = "null" THEN Throw                  \* data.status of null
    ELSE IF resp.status # 200 THEN Normal
    ELSE IF ~resp.result THEN Throw                           \* data.result.region of undefined
    ELSE
        LET dataRegion == IF TruthyField(resp.region) THEN resp.region
                          ELSE resp.admin_district
            key0   == "UK Average"
            key1   == IF TruthyField(dataRegion) /\ Includes(dataRegion.text, London)
                      THEN "London" ELSE key0
            key2   == IF TruthyField(dataRegion) /\ Includes(dataRegion.text, SouthEast)
                      THEN "South East" ELSE key1
        IN  IF dataRegion.kind = "nonString" THEN Throw           \* region.includes is no function
            ELSE Return([regionKey |-> key2, formattedPostcode |-> resp.postcode])

\* mutant: an error of the lookup is not caught
getPostcodeDetails_noCatch(resp, typedPostcode) ==
    LET body == getPostcodeDetails_try(resp)
    IN  IF body.completion = "return"
        THEN [raised |-> FALSE, regionKey |-> body.value.regionKey,
              formattedPostcode |-> body.value.formattedPostcode]
        ELSE IF body.completion = "throw"
        THEN [raised |-> TRUE, regionKey |-> "", formattedPostcode |-> ""]
        ELSE [raised |-> FALSE, regionKey |-> "UK Average", formattedPostcode |-> typedPostcode]

\* try { ... } catch (e) { console.warn(...) }  return { regionKey: "UK Average", ... }
\* raised says whether the call ends with an error instead of a value
getPostcodeDetails(resp, typedPostcode) ==
    LET body == getPostcodeDetails_try(resp)
    IN  IF body.completion = "return"
        THEN [raised |-> FALSE, regionKey |-> body.value.regionKey,
              formattedPostcode |-> body.value.formattedPostcode]
        ELSE [raised |-> FALSE, regionKey |-> "UK Average", formattedPostcode |-> typedPostcode]

\* the try block of getRegionForPostcode
getRegionForPostcode_try(resp) ==
    IF resp.outcome \in {"reject", "unparsable"} THEN Throw
    ELSE IF resp.outcome = "null" THEN Throw
    ELSE IF resp.status # 200 THEN Normal
    ELSE IF ~resp.result THEN Throw
    ELSE
        LET dataRegion == IF TruthyField(resp.region) THEN resp.region
                          ELSE resp.admin_district
        IN  IF dataRegion.kind = "nonString" THEN Throw
            ELSE IF TruthyField(dataRegion) /\ Includes(dataRegion.text, London)
                 THEN Return("London")
            ELSE IF TruthyField(dataRegion) /\ Includes(dataRegion.text, SouthEast)
                 THEN Return("South East")
            ELSE Return("UK Average")

getRegionForPostcode(resp, typedPostcode) ==
    LET body == getRegionForPostcode_try(resp)
    IN  IF body.completion = "return"
        THEN [raised |-> FALSE, regionKey |-> body.value, formattedPostcode |-> typedPostcode]
        ELSE [raised |-> FALSE, regionKey |-> "UK Average", formattedPostcode |-> typedPostcode]

\* variant: the current lookup lets its error through to handleSearch
classify_noCatch(resp, typedPostcode) ==
    IF build = "current" THEN getPostcodeDetails_noCatch(resp, typedPostcode)
    ELSE getRegionForPostcode(resp, typedPostcode)

\* the lookup of the variant that runs; the legacy search goes on with the
\* postcode as typed
classify(resp, typedPostcode) ==
    IF build = "current" THEN getPostcodeDetails(resp, typedPostcode)
    ELSE getRegionForPostcode(resp, typedPostcode)

---------------------------------------------------------------------------
(* The App component when it is mounted *)

\* useState(null) of selectedProp: null, as a record no service sends
null == [lastSoldDate |-> NoDate("null"), lastSoldPrice |-> undefined]

\* what the properties request comes to: the request rejects, or a response
\* arrives, ok or not, whose body parses to a list of records or does not
PropsResponse(outcome, ok, body) == [outcome |-> outcome, ok |-> ok, body |-> body]

\* the useState initial values of App
AppMounted ==
    /\ page = "home"
    /\ step = 1
    /\ postcode = ""
    /\ loading = FALSE
    /\ properties = <<>>
    /\ selectedProp = null
    /\ region = "UK Average"

\* no request has been issued
NoRequest ==
    /\ net = "none"
    /\ issued = <<>>
    /\ propsResponse = PropsResponse("reject", FALSE, <<>>)
    /\ listRegion = "UK Average"

\* the wall-clock year in which the module is loaded
FirstYear == 2024

\* the module has been loaded
ModuleLoaded ==
    /\ HPI_DATA = HPI_DATA_literal
    /\ now = FirstYear

---------------------------------------------------------------------------
(* The valuation under every input: Init draws the arguments and the          *)
(* environment, Valuate is the call.                                          *)

Builds == {"current", "legacy"}

TimeZones == {-5, 0, 9}

\* 100, 142 and 1250 make price * growthFactor an exact .5: 100 * (130.5 / 100)
\* is the double 130.5 and rounds up, 142 * (130.5 / 85.2) is the double
\* 217.49999999999997 and rounds down, as does 1250 * (138.2 / 100);
\* 4500000 and 5200000 are the prices of MOCK_PROPERTIES
SamplePrices == {100, 142, 1250, 4500000, 5200000}

Prices == (0..MaxPrice) \cup SamplePrices

\* years before, in, between and after the years of the tables
SoldYears == {1999, 2000, 2005, 2010, 2015, 2020, 2022, 2024, 2025}

SoldDates ==
    {NoDate(k) : k \in DateKinds \ {"date"}}
    \cup {IsoDate(y, md[1], md[2]) : y \in SoldYears, md \in {<<1, 1>>, <<6, 15>>, <<12, 31>>}}

Properties == [lastSoldDate : SoldDates, lastSoldPrice : Prices]

\* the keys of the tables and a region that has no table
RegionKeys == {"London", "South East", "UK Average", "North West"}

noResult ==
    [estimatedValue |-> undefined, lowerBound |-> undefined, upperBound |-> undefined,
     growthFactor |-> [num |-> undefined, den |-> undefined],
     chartData |-> <<>>, regionKey |-> ""]

noDetails == [raised |-> FALSE, regionKey |-> "", formattedPostcode |-> ""]

InitValuate ==
    /\ build \in Builds
    /\ tz \in TimeZones
    /\ fpTie \in {"down", "up"}
    /\ property \in Properties
    /\ regionKey \in RegionKeys
    /\ pc = "ready"
    /\ ret = noResult
    /\ retYear = FirstYear
    /\ lookup = FailedResponse("reject")
    /\ inputPostcode = ""
    /\ details = noDetails
    /\ ModuleLoaded
    /\ AppMounted
    /\ NoRequest

Valuate ==
    /\ pc = "ready"
    /\ ret' = calculateValuation(property, regionKey)
    /\ retYear' = now
    /\ pc' = "returned"
    /\ UNCHANGED <<build, tz, fpTie, property, regionKey, HPI_DATA, now>>
    /\ UNCHANGED <<lookup, inputPostcode, details, net, issued, propsResponse, listRegion>>
    /\ UNCHANGED appVars

NextValuate == Valuate

SpecValuate == InitValuate /\ [][NextValuate]_vars

---------------------------------------------------------------------------
(* The region classification under every lookup response: Init draws the      *)
(* response and the postcode, Classify is the call.                           *)

Pieces ==
    {London, SouthEast, <<"S", "o", "u", "t", "h">>, <<"E", "a", "s", "t">>, <<" ">>,
     <<"l", "o", "n", "d", "o", "n">>, <<"d", "e", "r", "r", "y">>}

\* the texts made of up to n pieces
RECURSIVE Texts(_)
Texts(n) ==
    IF n = 0 THEN {<<>>}
    ELSE Texts(n - 1) \cup {t \o piece : t \in Texts(n - 1), piece \in Pieces}

Fields(n) == {AbsentField, NonStringField} \cup {StringField(t) : t \in Texts(n)}

Responses ==
    {FailedResponse(o) : o \in {"reject", "unparsable", "null"}}
    \cup {Response("json", 404, FALSE, AbsentField, AbsentField, ""),
          Response("json", 404, TRUE, StringField(London), AbsentField, "SW1A 1AA"),
          Response("json", 200, FALSE, AbsentField, AbsentField, "")}
    \cup {Response("json", 200, TRUE, regionField, district, "SW1A 1AA") :
              regionField \in Fields(MaxPieces), district \in Fields(MaxPieces - 1)}

InitClassify ==
    /\ build \in Builds
    /\ lookup \in Responses
    /\ inputPostcode \in {"sw1a1aa", "SW1A 1AA"}
    /\ details = noDetails
    /\ pc = "ready"
    /\ tz = 0
    /\ fpTie = "up"
    /\ property = [lastSoldDate |-> NoDate("undefined"), lastSoldPrice |-> 0]
    /\ regionKey = "UK Average"
    /\ ret = noResult
    /\ retYear = FirstYear
    /\ ModuleLoaded
    /\ AppMounted
    /\ NoRequest

Classify ==
    /\ pc = "ready"
    /\ details' = classify(lookup, inputPostcode)
    /\ pc' = "returned"
    /\ UNCHANGED engineVars
    /\ UNCHANGED <<lookup, inputPostcode, net, issued, propsResponse, listRegion>>
    /\ UNCHANGED appVars

NextClassify == Classify

SpecClassify == InitClassify /\ [][NextClassify]_vars

---------------------------------------------------------------------------
(* The property service *)

\* MOCK_PROPERTIES, in the fields calculateValuation reads
MOCK_PROPERTIES_current ==
    <<[lastSoldDate |-> IsoDate(2005, 6, 15), lastSoldPrice |-> 4500000]>>

MOCK_PROPERTIES_legacy ==
    <<[lastSoldDate |-> IsoDate(2005, 6, 15), lastSoldPrice |-> 4500000],
      [lastSoldDate |-> IsoDate(2012, 8, 20), lastSoldPrice |-> 5200000]>>

MOCK_PROPERTIES ==
    IF build = "current" THEN MOCK_PROPERTIES_current ELSE MOCK_PROPERTIES_legacy

\* the try block of fetchProperties
fetchProperties_try(resp) ==
    IF resp.outcome = "reject" THEN Throw             \* await fetch(...) rejects
    ELSE IF ~resp.ok THEN Throw                       \* throw new Error("Backend not reachable")
    ELSE IF resp.outcome = "unparsable" THEN Throw    \* await response.json() rejects
    ELSE Return(resp.body)

\* mutant: an empty list of the service is replaced by the mock list as well
fetchProperties_mockWhenEmpty(resp) ==
    LET body == fetchProperties_try(resp)
    IN  IF body.completion = "return" /\ body.value # <<>> THEN body.value
        ELSE MOCK_PROPERTIES

\* try { ... return await response.json() } catch (e) { return MOCK_PROPERTIES }
fetchProperties(resp) ==
    LET body == fetchProperties_try(resp)
    IN  IF body.completion = "return" THEN body.value ELSE MOCK_PROPERTIES

---------------------------------------------------------------------------
(* What App renders: renderContent of the current variant, the JSX of the     *)
(* legacy one.  Of a view the model keeps which screen it is, its message,    *)
(* and whether it shows a currency estimate, a range and a growth percentage. *)

Screen(name, message, estimate, range, percentage) ==
    [screen |-> name, message |-> message, estimate |-> estimate, range |-> range,
     percentage |-> percentage]

\* x > 0 of a JavaScript number (false for NaN and undefined)
Positive(x) == IsNumber(x) /\ x > 0

\* if (step === 3 && selectedProp) { ... } of renderContent
renderResult ==
    LET valuation == calculateValuation(selectedProp, region)
    IN  IF Positive(valuation.estimatedValue)
        THEN Screen("result", "", TRUE, TRUE, TRUE)
        ELSE Screen("result", "Valuation Unavailable", FALSE, FALSE, FALSE)

renderContent ==
    IF page # "home" THEN Screen(page, "", FALSE, FALSE, FALSE)
    ELSE IF step = 1 THEN Screen("search", "", FALSE, FALSE, FALSE)
    ELSE IF step = 2
    THEN IF Len(properties) > 0 THEN Screen("list", "", FALSE, FALSE, FALSE)
         ELSE Screen("list", "No recent sales found.", FALSE, FALSE, FALSE)
    ELSE IF step = 3 /\ selectedProp # null THEN renderResult
    ELSE Screen("", "", FALSE, FALSE, FALSE)

\* the JSX of the legacy App: the search form, the list, the Report
render_legacy ==
    IF step = 1 THEN Screen("search", "", FALSE, FALSE, FALSE)
    ELSE IF step = 2 THEN Screen("list", "", FALSE, FALSE, FALSE)
    ELSE IF step = 3 /\ selectedProp # null THEN Screen("result", "", TRUE, TRUE, TRUE)
    ELSE Screen("", "", FALSE, FALSE, FALSE)

View == IF build = "current" THEN renderContent ELSE render_legacy

\* the view calls calculateValuation (with selectedProp and region)
Valuates == View.screen = "result"

---------------------------------------------------------------------------
(* The App component: its controls, handleSearch and the two requests *)

\* postcodes typed into the input
Postcodes == {"", "sw1a 1aa"}

\* responses of the postcode lookup: none, not found, and a postcode of each
\* region key
LookupResponses ==
    {FailedResponse("reject"),
     Response("json", 404, FALSE, AbsentField, AbsentField, ""),
     Response("json", 200, TRUE, StringField(London), AbsentField, "SW1A 1AA"),
     Response("json", 200, TRUE, StringField(SouthEast), AbsentField, "SW1A 1AA"),
     Response("json", 200, TRUE, AbsentField, AbsentField, "SW1A 1AA"),
     Response("json", 200, TRUE, StringField(<<"d", "e", "r", "r", "y">>), AbsentField,
              "SW1A 1AA")}

\* records of the service: one with a sale, one of the EPC register alone
\* (no sale date, price 0)
ServiceRecords ==
    {[lastSoldDate |-> IsoDate(2010, 3, 1), lastSoldPrice |-> 250000],
     [lastSoldDate |-> NoDate("null"), lastSoldPrice |-> 0]}

\* the lists of up to MaxListed distinct records of the service, the empty
\* one included
ServiceLists ==
    {list \in UNION {[1..n -> ServiceRecords] : n \in 0..MaxListed} :
        \A i \in DOMAIN list : \A j \in DOMAIN list : i # j => list[i] # list[j]}

PropsResponses ==
    {PropsResponse("reject", FALSE, <<>>),
     PropsResponse("json", FALSE, <<>>),
     PropsResponse("unparsable", TRUE, <<>>)}
    \cup {PropsResponse("json", TRUE, list) : list \in ServiceLists}

Request(to, text) == [to |-> to, postcode |-> text]

Init ==
    /\ build \in Builds
    /\ tz = 0
    /\ fpTie = "up"
    /\ property = [lastSoldDate |-> NoDate("undefined"), lastSoldPrice |-> 0]
    /\ regionKey = "UK Average"
    /\ ret = noResult
    /\ retYear = FirstYear
    /\ ModuleLoaded
    /\ AppMounted
    /\ NoRequest
    /\ pc = "idle"
    /\ lookup = FailedResponse("reject")
    /\ inputPostcode = ""
    /\ details = noDetails

\* the home page shows the content of the step (the legacy App has one page)
OnHome == page = "home"

\* the wall clock moves on by a year
Tick ==
    /\ now < FirstYear + MaxYearsOn
    /\ now' = now + 1
    /\ UNCHANGED <<build, tz, fpTie, property, regionKey, ret, retYear, HPI_DATA>>
    /\ UNCHANGED <<appVars, searchVars>>

\* variant: navigation starts the wizard over
SetPage_startsOver(p) ==
    /\ build = "current"
    /\ page # p
    /\ page' = p
    /\ step' = 1
    /\ UNCHANGED <<postcode, loading, properties, selectedProp, region>>
    /\ UNCHANGED <<engineVars, searchVars>>

\* setPage(p): the buttons of Header and footer, onBack of an InfoPage
SetPage(p) ==
    /\ build = "current"
    /\ page # p
    /\ page' = p
    /\ UNCHANGED <<step, postcode, loading, properties, selectedProp, region>>
    /\ UNCHANGED <<engineVars, searchVars>>

\* onChange of the postcode input: setPostcode(e.target.value)
SetPostcode(text) ==
    /\ OnHome /\ step = 1
    /\ postcode # text
    /\ postcode' = text
    /\ UNCHANGED <<page, step, loading, properties, selectedProp, region>>
    /\ UNCHANGED <<engineVars, searchVars>>

\* variant: the submit button stays enabled while a search is running
Submit_whileLoading ==
    /\ OnHome /\ step = 1
    /\ loading' = TRUE
    /\ inputPostcode' = postcode
    /\ issued' = <<Request("lookup", postcode)>>
    /\ net' = "pending"
    /\ pc' = "awaitLookup"
    /\ UNCHANGED <<page, step, postcode, properties, selectedProp, region>>
    /\ UNCHANGED <<lookup, details, propsResponse, listRegion>>
    /\ UNCHANGED engineVars

\* variant: the form is offered on every step of the home page
Submit_onAnyStep ==
    /\ OnHome
    /\ ~loading
    /\ loading' = TRUE
    /\ inputPostcode' = postcode
    /\ issued' = <<Request("lookup", postcode)>>
    /\ net' = "pending"
    /\ pc' = "awaitLookup"
    /\ UNCHANGED <<page, step, postcode, properties, selectedProp, region>>
    /\ UNCHANGED <<lookup, details, propsResponse, listRegion>>
    /\ UNCHANGED engineVars

\* onSubmit of the form, whose button is disabled={loading}: handleSearch up
\* to its first await, the lookup request being issued
Submit ==
    /\ OnHome /\ step = 1
    /\ ~loading
    /\ loading' = TRUE
    /\ inputPostcode' = postcode
    /\ issued' = <<Request("lookup", postcode)>>
    /\ net' = "pending"
    /\ pc' = "awaitLookup"
    /\ UNCHANGED <<page, step, postcode, properties, selectedProp, region>>
    /\ UNCHANGED <<lookup, details, propsResponse, listRegion>>
    /\ UNCHANGED engineVars

\* the lookup request settles
LookupSettles(resp) ==
    /\ pc = "awaitLookup" /\ net = "pending"
    /\ lookup' = resp
    /\ net' = "settled"
    /\ UNCHANGED <<inputPostcode, details, pc, issued, propsResponse, listRegion>>
    /\ UNCHANGED <<engineVars, appVars>>

\* variant: the region is set only when the lookup resolved a region of its own
LookupResumes_keepsRegion ==
    /\ pc = "awaitLookup" /\ net = "settled"
    /\ LET d == classify(lookup, inputPostcode)
       IN  /\ ~d.raised
           /\ details' = d
           /\ region' = (IF d.regionKey = "UK Average" THEN region ELSE d.regionKey)
           /\ issued' = Append(issued, Request("properties", d.formattedPostcode))
    /\ net' = "pending"
    /\ pc' = "awaitProperties"
    /\ lookup' = FailedResponse("reject")
    /\ UNCHANGED <<page, step, postcode, loading, properties, selectedProp>>
    /\ UNCHANGED <<inputPostcode, propsResponse, listRegion>>
    /\ UNCHANGED engineVars

\* handleSearch from its first await to its second: setRegion(details.regionKey)
\* and the properties request, for details.formattedPostcode (legacy: for
\* postcode)
LookupResumes ==
    /\ pc = "awaitLookup" /\ net = "settled"
    /\ LET d == classify(lookup, inputPostcode)
       IN  /\ ~d.raised
           /\ details' = d
           /\ region' = d.regionKey
           /\ issued' = Append(issued, Request("properties", d.formattedPostcode))
    /\ net' = "pending"
    /\ pc' = "awaitProperties"
    /\ lookup' = FailedResponse("reject")
    /\ UNCHANGED <<page, step, postcode, loading, properties, selectedProp>>
    /\ UNCHANGED <<inputPostcode, propsResponse, listRegion>>
    /\ UNCHANGED engineVars

\* the properties request settles
PropertiesSettle(resp) ==
    /\ pc = "awaitProperties" /\ net = "pending"
    /\ propsResponse' = resp
    /\ net' = "settled"
    /\ UNCHANGED <<lookup, inputPostcode, details, pc, issued, listRegion>>
    /\ UNCHANGED <<engineVars, appVars>>

\* variant: handleSearch ends without setPage('home')
PropertiesResume_staysOnPage ==
    /\ pc = "awaitProperties" /\ net = "settled"
    /\ properties' = fetchProperties(propsResponse)
    /\ loading' = FALSE
    /\ step' = 2
    /\ pc' = "idle"
    /\ net' = "none"
    /\ propsResponse' = PropsResponse("reject", FALSE, <<>>)
    /\ inputPostcode' = ""
    /\ listRegion' = details.regionKey
    /\ details' = noDetails
    /\ UNCHANGED <<page, postcode, selectedProp, region, lookup, issued>>
    /\ UNCHANGED engineVars

\* handleSearch after its second await: setProperties(props); setLoading(false);
\* setStep(2); setPage('home')
PropertiesResume ==
    /\ pc = "awaitProperties" /\ net = "settled"
    /\ properties' = fetchProperties(propsResponse)
    /\ loading' = FALSE
    /\ step' = 2
    /\ page' = "home"
    /\ pc' = "idle"
    /\ net' = "none"
    /\ propsResponse' = PropsResponse("reject", FALSE, <<>>)
    /\ inputPostcode' = ""
    /\ listRegion' = details.regionKey
    /\ details' = noDetails
    /\ UNCHANGED <<postcode, selectedProp, region, lookup, issued>>
    /\ UNCHANGED engineVars

\* onClick of an entry of the list: setSelectedProp(addr); setStep(3), which
\* leads to the render of the result and its call of calculateValuation
Select(i) ==
    /\ OnHome /\ step = 2
    /\ i \in 1..Len(properties)
    /\ selectedProp' = properties[i]
    /\ step' = 3
    /\ UNCHANGED <<page, postcode, loading, properties, region>>
    /\ UNCHANGED <<build, tz, fpTie, now, searchVars>>

\* mutant: the valuation of the selected record stores the index it used for
\* the sold year in the table
SelectProperty_storesIndex(i) ==
    /\ Select(i)
    /\ LET key == IF region \in DOMAIN HPI_DATA THEN region ELSE "UK Average"
           soldYear == soldYearOf(properties[i])
       IN  HPI_DATA' = [HPI_DATA EXCEPT ![key] = @ @@ (soldYear :> fallbackIndexOld)]
    /\ UNCHANGED <<property, regionKey, ret, retYear>>

SelectProperty(i) ==
    /\ Select(i)
    /\ UNCHANGED <<HPI_DATA, property, regionKey, ret, retYear>>

\* SelectProperty with a record of the session's first call of
\* calculateValuation: its arguments, its result and its year
SelectPropertyKeepingFirst(i) ==
    /\ Select(i)
    /\ IF ret = noResult
       THEN /\ property' = properties[i]
            /\ regionKey' = region
            /\ ret' = calculateValuation(properties[i], region)
            /\ retYear' = now
       ELSE UNCHANGED <<property, regionKey, ret, retYear>>
    /\ UNCHANGED HPI_DATA

\* setStep(1): "Back" and "Try another postcode" of the list, "Value Another
\* Property" of the result (onReset of the legacy Report)
BackToSearch ==
    /\ OnHome
    /\ step = 2 \/ (step = 3 /\ selectedProp # null)
    /\ step' = 1
    /\ UNCHANGED <<page, postcode, loading, properties, selectedProp, region>>
    /\ UNCHANGED <<engineVars, searchVars>>

\* setStep(2): "Back to List" of the result
BackToList ==
    /\ build = "current"
    /\ OnHome /\ step = 3 /\ selectedProp # null
    /\ step' = 2
    /\ UNCHANGED <<page, postcode, loading, properties, selectedProp, region>>
    /\ UNCHANGED <<engineVars, searchVars>>

\* the steps of the App other than the selection of a property
Others ==
    \/ Tick
    \/ \E p \in {"home", "how-it-works", "data", "privacy"} : SetPage(p)
    \/ \E text \in Postcodes : SetPostcode(text)
    \/ Submit
    \/ \E resp \in LookupResponses : LookupSettles(resp)
    \/ LookupResumes
    \/ \E resp \in PropsResponses : PropertiesSettle(resp)
    \/ PropertiesResume
    \/ BackToSearch
    \/ BackToList

Next ==
    \/ Others
    \/ \E i \in 1..MaxListed : SelectProperty(i)

Spec == Init /\ [][Next]_vars

\* the App with the record of the session's first valuation
NextKeepingFirst ==
    \/ Others
    \/ \E i \in 1..MaxListed : SelectPropertyKeepingFirst(i)

SpecKeepingFirst == Init /\ [][NextKeepingFirst]_vars

\* handleSearch goes on once the request it awaits has settled; nothing says
\* that a request settles
SpecFair == Spec /\ WF_vars(LookupResumes) /\ WF_vars(PropertiesResume)

\* the same, when every request settles: fetch resolves or rejects
SpecSettling ==
    /\ SpecFair
    /\ WF_vars(\E resp \in LookupResponses : LookupSettles(resp))
    /\ WF_vars(\E resp \in PropsResponses : PropertiesSettle(resp))

---------------------------------------------------------------------------
(* What the specification says the engine computes (spec.md 4.2, 4.3),      *)
(* stated on the tables alone.                                              *)

\* indexFor(region, year): the table's value; 100.0 for a year that is not in
\* the table; the UK Average table for a region that has none
IndexFor(key, year) ==
    LET table == IF key \in DOMAIN HPI_DATA THEN HPI_DATA[key]
                 ELSE HPI_DATA["UK Average"]
    IN  IF year \in DOMAIN table THEN table[year] ELSE 1000

\* the fractions a and b are the same number
SameRatio(a, b) == a.num * b.den = b.num * a.den

\* v is an integer nearest to p * n / d  (p = q * d + r, as in MathRoundProduct)
NearestInteger(v, p, n, d) ==
    LET q == p \div d
        r == p % d
        k == v - q * n
    IN  /\ 2 * (k * d - r * n) <= d
        /\ 2 * (r * n - k * d) <= d

\* lastSoldDate is absent: the field is missing or null
Absent(v) == v.kind \in {"undefined", "null"}

Returned == pc = "returned"

---------------------------------------------------------------------------
(* Claims *)

\* C1: a record with lastSoldPrice = 0 is valued at estimatedValue = 0 with
\* lowerBound = 0 and upperBound = 0, for every region key and every
\* lastSoldDate, and growthFactor is still indexNew / indexOld.
C1_UnavailableIsZero ==
    (Returned /\ property.lastSoldPrice = 0) =>
        /\ ret.estimatedValue = 0
        /\ ret.lowerBound = 0
        /\ ret.upperBound = 0
        /\ ret.growthFactor.num = IndexFor(regionKey, currentYear)
        /\ ret.growthFactor.den = IndexFor(regionKey, soldYearOf(property))

C1_Witness ==
    /\ Returned
    /\ property.lastSoldPrice = 0
    /\ property.lastSoldDate = IsoDate(2010, 6, 15)
    /\ regionKey = "South East"
    /\ ret.estimatedValue = 0
    /\ ret.growthFactor = [num |-> 1382, den |-> 841]

\* C2: a record with lastSoldPrice > 0 is valued at
\* round(lastSoldPrice * growthFactor), an integer nearest to the product, with
\* growthFactor = indexFor(region, 2024) / indexFor(region, soldYear).
C2_EstimateIsRoundedProduct ==
    (Returned /\ property.lastSoldPrice > 0) =>
        /\ ret.growthFactor.num = IndexFor(regionKey, 2024)
        /\ ret.growthFactor.den = IndexFor(regionKey, soldYearOf(property))
        /\ NearestInteger(ret.estimatedValue, property.lastSoldPrice,
                          IndexFor(regionKey, 2024),
                          IndexFor(regionKey, soldYearOf(property)))

\* 4500000 * 143.2 / 84.5 = 7626035.50..., rounded up
C2_Witness ==
    /\ Returned
    /\ property.lastSoldPrice = 4500000
    /\ property.lastSoldDate = IsoDate(2010, 6, 15)
    /\ regionKey = "UK Average"
    /\ ret.estimatedValue = 7626036

\* C3: with lastSoldDate absent the sold year used is the base year 2015, so
\* growthFactor = indexFor(region, currentYear) / 100.0, for every region.
C3_AbsentDateIsBaseYear ==
    (Returned /\ Absent(property.lastSoldDate)) =>
        /\ soldYearOf(property) = 2015
        /\ ret.growthFactor.num = IndexFor(regionKey, currentYear)
        /\ ret.growthFactor.den = 1000

\* C4: a sold year that is no key of the region's table (before the first year,
\* between listed years, after the current year) has indexOld = 100.0, so the
\* growth factor is the one of a sale in the base year.
BaseYearSale(prop) == [prop EXCEPT !.lastSoldDate = IsoDate(2015, 6, 15)]

C4_MissingYearIsParity ==
    (Returned /\ soldYearOf(property) \notin DOMAIN indexDataOf(regionKey)) =>
        /\ ret.growthFactor.den = 1000
        /\ SameRatio(ret.growthFactor,
                     calculateValuation(BaseYearSale(property), regionKey).growthFactor)

\* a sale between two listed years of the sparse table
C4_Witness ==
    /\ Returned
    /\ build = "current"
    /\ property.lastSoldDate = IsoDate(2005, 6, 15)
    /\ property.lastSoldPrice = 4500000
    /\ regionKey = "London"
    /\ ret.growthFactor = [num |-> 1305, den |-> 1000]
    /\ ret.estimatedValue = 5872500

\* the fields of a ValuationResult (spec.md 3); the legacy result also echoes
\* the region key it was called with
Valuation(r) ==
    <<r.estimatedValue, r.lowerBound, r.upperBound, r.growthFactor, r.chartData>>

\* C5: a region key that is no key of the HPI table is valued with the UK
\* Average table: the valuation is the one of the same property with region key
\* UK Average.
C5_UnknownRegionIsUKAverage ==
    (Returned /\ regionKey \notin DOMAIN HPI_DATA) =>
        Valuation(ret) = Valuation(calculateValuation(property, "UK Average"))

C5_Witness ==
    /\ Returned
    /\ regionKey = "North West"
    /\ property.lastSoldPrice = 5200000
    /\ property.lastSoldDate = IsoDate(2020, 12, 31)
    /\ ret.growthFactor = [num |-> 1432, den |-> 1225]
    /\ ret.estimatedValue = 6078694

\* C6: lowerBound = round(estimatedValue * 0.95) and upperBound =
\* round(estimatedValue * 1.05), nearest integers of the rounded estimate with
\* an exact .5 rounded up.
C6_BoundsFromRoundedEstimate ==
    Returned =>
        /\ -50 < 100 * ret.lowerBound - 95 * ret.estimatedValue
        /\ 100 * ret.lowerBound - 95 * ret.estimatedValue <= 50
        /\ -50 < 100 * ret.upperBound - 105 * ret.estimatedValue
        /\ 100 * ret.upperBound - 105 * ret.estimatedValue <= 50

\* 1 * 143.2 / 100 = 1.432 rounds to 1; the bounds of 1 are 1 and 1, those of
\* 1.432 would be 1 and 2
C6_Witness ==
    /\ Returned
    /\ property.lastSoldPrice = 1
    /\ property.lastSoldDate = IsoDate(2015, 6, 15)
    /\ regionKey = "UK Average"
    /\ ret.estimatedValue = 1
    /\ ret.lowerBound = 1
    /\ ret.upperBound = 1

\* C7: when estimatedValue > 0, upperBound >= estimatedValue >= lowerBound.
C7_BoundsBracketEstimate ==
    (Returned /\ ret.estimatedValue > 0) =>
        /\ ret.upperBound >= ret.estimatedValue
        /\ ret.estimatedValue >= ret.lowerBound

C7_Witness ==
    /\ Returned
    /\ property.lastSoldPrice = 4500000
    /\ property.lastSoldDate = IsoDate(2005, 6, 15)
    /\ build = "current"
    /\ regionKey = "London"
    /\ ret.estimatedValue = 5872500
    /\ ret.lowerBound = 5578875
    /\ ret.upperBound = 6166125

\* C10: calculateValuation is total: for every record and region key it returns
\* a result whose estimatedValue, lowerBound and upperBound are non-negative
\* integers and whose growthFactor is a finite number >= 0.
C10_Total ==
    Returned =>
        /\ ret.estimatedValue \in Nat
        /\ ret.lowerBound \in Nat
        /\ ret.upperBound \in Nat
        /\ ret.growthFactor.num \in Nat
        /\ ret.growthFactor.den \in Nat
        /\ ret.growthFactor.den # 0

\* no date, no price, no table for the region
C10_Witness ==
    /\ Returned
    /\ property.lastSoldDate.kind = "undefined"
    /\ property.lastSoldPrice = 0
    /\ regionKey = "North West"
    /\ build = "legacy"
    /\ ret.estimatedValue = 0
    /\ ret.growthFactor = [num |-> 1432, den |-> 1000]

---------------------------------------------------------------------------
(* Claims on the region classification *)

\* the lookup succeeded: a parsed body with status 200 and a result
Succeeded(resp) == resp.outcome = "json" /\ resp.status = 200 /\ resp.result

\* the raw region label of a response (spec.md 4.1): the region of the result,
\* or its admin district when it has no region
Label(resp) == IF TruthyField(resp.region) THEN resp.region ELSE resp.admin_district

HasText(f, needle) == f.kind = "string" /\ Includes(f.text, needle)

\* C8: the rules apply in the order London, South East, UK Average and the first
\* match wins: a label that contains both "London" and "South East" is London;
\* a label that contains "South East" and not "London" is South East.
C8_FirstMatchWins ==
    (Returned /\ Succeeded(lookup)) =>
        /\ HasText(Label(lookup), London) => details.regionKey = "London"
        /\ (HasText(Label(lookup), SouthEast) /\ ~HasText(Label(lookup), London))
               => details.regionKey = "South East"

\* C9: the classification is UK Average whenever the label is absent or contains
\* neither "London" nor "South East", and whenever the lookup fails (the request
\* rejects, the body is unparsable, the status is not 200); no error reaches the
\* caller.
C9_DefaultsToUKAverage ==
    Returned =>
        /\ ~details.raised
        /\ ~Succeeded(lookup) => details.regionKey = "UK Average"
        /\ (~HasText(Label(lookup), London) /\ ~HasText(Label(lookup), SouthEast))
               => details.regionKey = "UK Average"

\* a failed request
C9_Witness ==
    /\ Returned
    /\ lookup.outcome = "reject"
    /\ details.regionKey = "UK Average"
    /\ ~details.raised


---------------------------------------------------------------------------
(* Claims on the App component and on calculateValuation as App calls it *)

\* the elements of a list
Range(list) == {list[i] : i \in 1..Len(list)}

\* the records App can hold
AppRecords == ServiceRecords \cup Range(MOCK_PROPERTIES)

\* C11: calculateValuation is deterministic and has no hidden state: a call
\* with the record and the region key of the session's first call returns
\* what the first call returned, whatever searches, selections, navigations and
\* valuations happened in between and whatever the wall-clock year is.
C11_SameResultAtAnyTime ==
    (Valuates /\ selectedProp = property /\ region = regionKey) =>
        calculateValuation(selectedProp, region) = ret

\* the first call's record is valued again with the same region key, in a
\* later year than the first call's
C11_Witness ==
    /\ Valuates /\ selectedProp = property /\ region = regionKey
    /\ now > retYear

\* a record sold for 4,500,000 in 2005 is valued with the region key London
SoldIn2005ForLondon ==
    /\ Returned
    /\ property.lastSoldPrice = 4500000
    /\ property.lastSoldDate.kind = "date" /\ property.lastSoldDate.y = 2005
    /\ regionKey = "London"

\* growth factor 1.305, estimate 5,872,500, bounds 5,578,875 and 6,166,125
ExampleResult ==
    /\ ret.growthFactor = [num |-> 1305, den |-> 1000]
    /\ ret.estimatedValue = 5872500
    /\ ret.lowerBound = 5578875
    /\ ret.upperBound = 6166125

\* C12, as stated: a property sold for 4,500,000 in 2005 and valued with the
\* region key London has its sold-year index fall back to 100.0 against the
\* current index 130.5: growth factor 1.305, estimated value 5,872,500, lower
\* bound 5,578,875, upper bound 6,166,125.
C12_Example == SoldIn2005ForLondon => ExampleResult

\* C12, amended: the example holds in the current variant, whose table lists
\* neither 2005 nor 2004. The legacy table lists 2005 (63.5), so the legacy
\* variant values the record sold on 2005-06-15 with the growth factor
\* 130.5 / 63.5: estimate 9,248,031, bounds 8,785,629 and 9,710,433.
C12_ExampleOfSparseTable ==
    /\ (SoldIn2005ForLondon /\ build = "current") => ExampleResult
    /\ (SoldIn2005ForLondon /\ build = "legacy"
            /\ property.lastSoldDate = IsoDate(2005, 6, 15)) =>
           /\ ret.growthFactor = [num |-> 1305, den |-> 635]
           /\ ret.estimatedValue = 9248031
           /\ ret.lowerBound = 8785629
           /\ ret.upperBound = 9710433

\* the current variant has valued the record sold on 1 January 2005 west of
\* Greenwich, where the sold year is 2004
C12_Witness ==
    /\ SoldIn2005ForLondon
    /\ build = "current"
    /\ property.lastSoldDate = IsoDate(2005, 1, 1)
    /\ tz < 0
    /\ ret.estimatedValue = 5872500

\* the list of step 2 is shown
ListShown == OnHome /\ step = 2

\* C13: with an empty property list no valuation is computed: step 3, the only
\* view that calls calculateValuation, is not reached while properties is
\* empty (also when a property was selected during an earlier search), and the
\* empty list is shown as the "no properties found" state, not as an error.
C13_EmptyListIsReported ==
    properties = <<>> =>
        /\ step # 3 /\ ~Valuates
        /\ ListShown => View.message = "No recent sales found."

\* the property service is unreachable: the request rejects, the response is
\* not OK, or its body does not parse
Unreachable(resp) == resp.outcome = "reject" \/ ~resp.ok \/ resp.outcome = "unparsable"

\* handleSearch takes the value of fetchProperties
TakesProperties == pc = "awaitProperties" /\ net = "settled" /\ pc' = "idle"

\* C14: fetchProperties returns MOCK_PROPERTIES when the service is unreachable
\* (the request rejects, the response is not OK, the body does not parse), and
\* the list of a successful response unchanged otherwise, the empty list
\* included.
C14_MockWhenUnreachable ==
    [][TakesProperties =>
           properties' = IF Unreachable(propsResponse) THEN MOCK_PROPERTIES
                         ELSE propsResponse.body]_vars

\* a search has ended with the empty list of a successful response
C14_Witness == pc = "idle" /\ step = 2 /\ ~loading /\ properties = <<>>

\* the legacy calculateValuation, the one that returns a series, has returned
ReturnedSeries == Returned /\ build = "legacy"

\* the years of the region's table from the sold year on (none when the sold
\* year is NaN)
SeriesYears ==
    LET soldYear == soldYearOf(property)
    IN  {y \in DOMAIN indexDataOf(regionKey) : soldYear # NaN /\ y >= soldYear}

\* C15: the series returned by calculateValuation has exactly one entry for
\* every year y of the region's table with y >= soldYear, in ascending order of
\* year, and the entry of y is (y, index(y), round(lastSoldPrice * index(y) /
\* indexOld)) with the indexOld of the growth factor.
C15_SeriesFromSoldYear ==
    ReturnedSeries =>
        LET series == ret.chartData
            table  == indexDataOf(regionKey)
        IN  /\ {series[i].year : i \in 1..Len(series)} = SeriesYears
            /\ Len(series) = Cardinality(SeriesYears)
            /\ \A i \in 1..Len(series) : \A j \in 1..Len(series) :
                   i < j => series[i].year < series[j].year
            /\ \A i \in 1..Len(series) :
                   /\ series[i].index = table[series[i].year]
                   /\ NearestInteger(series[i].value, property.lastSoldPrice,
                                     table[series[i].year], ret.growthFactor.den)

\* a sale of 2010 has a series of the fifteen years 2010..2024
C15_Witness ==
    /\ ReturnedSeries
    /\ property.lastSoldPrice = 4500000
    /\ property.lastSoldDate = IsoDate(2010, 6, 15)
    /\ Len(ret.chartData) = 15
    /\ ret.chartData[1].year = 2010 /\ ret.chartData[1].value = 4500000

\* C16: the series is produced only when a usable sale price and a sold year
\* exist: for a record with lastSoldPrice = 0 or with no lastSoldDate,
\* calculateValuation returns no series entry.
C16_NoSeriesWithoutSale ==
    (Returned /\ (property.lastSoldPrice = 0 \/ Absent(property.lastSoldDate))) =>
        Len(ret.chartData) = 0

\* C17: in the HPI table every region has the base year 2015 with the index
\* 100.0 and the current year 2024, UK Average is a region of it, and every
\* index is strictly positive; hence, for every record and region key,
\* indexOld is not 0, indexNew is the table's index of 2024 and not the
\* hard-coded fallback, and growthFactor is finite and positive.
C17_TableWellFormed ==
    /\ "UK Average" \in DOMAIN HPI_DATA
    /\ \A r \in DOMAIN HPI_DATA :
           /\ 2015 \in DOMAIN HPI_DATA[r] /\ HPI_DATA[r][2015] = 1000
           /\ 2024 \in DOMAIN HPI_DATA[r]
           /\ \A y \in DOMAIN HPI_DATA[r] : HPI_DATA[r][y] > 0
    /\ Returned =>
           /\ IsNumber(ret.growthFactor.den) /\ ret.growthFactor.den > 0
           /\ IsNumber(ret.growthFactor.num) /\ ret.growthFactor.num > 0
           /\ 2024 \in DOMAIN indexDataOf(regionKey)
           /\ ret.growthFactor.num = indexDataOf(regionKey)[2024]

\* a record with an unparsable date is valued for a region that has no table
C17_Witness ==
    /\ Returned
    /\ property.lastSoldDate.kind = "invalid"
    /\ regionKey = "North West"
    /\ ret.growthFactor = [num |-> 1432, den |-> 1000]

\* properties changes only to the list fetchProperties got
ListAsReceived ==
    properties' # properties =>
        (/\ TakesProperties
         /\ properties' = IF Unreachable(propsResponse) THEN MOCK_PROPERTIES
                           ELSE propsResponse.body)

\* selectedProp changes only to a record of properties
RecordOfList ==
    selectedProp' # selectedProp =>
        \E i \in 1..Len(properties) : selectedProp' = properties[i]

\* C18: no operation writes to the HPI table or to a property record: after
\* any searches, selections, navigations and valuations HPI_DATA is the table
\* of the source, properties changes only to the list fetchProperties got
\* (the service's, or MOCK_PROPERTIES), and selectedProp changes only to a
\* record of properties.
C18_TableAndRecordsUntouched ==
    /\ [](HPI_DATA = HPI_DATA_literal)
    /\ [][ListAsReceived /\ RecordOfList]_vars

\* a record of the service is valued with a sold year the table has no entry
\* for
C18_Witness ==
    /\ Valuates
    /\ selectedProp \in ServiceRecords
    /\ soldYearOf(selectedProp) \notin DOMAIN indexDataOf(region)

\* the result of a record without a sale price is shown
UnpricedResultShown ==
    OnHome /\ step = 3 /\ selectedProp # null /\ selectedProp.lastSoldPrice = 0

\* C19: the failure states are rendered distinctly from an estimate: at step 3
\* with a selected record whose lastSoldPrice is 0 the view shows "valuation
\* unavailable" and no currency estimate, range or growth percentage, and at
\* step 2 with an empty list it shows the "no properties found" state.
C19_FailuresShownDistinctly ==
    /\ UnpricedResultShown =>
           /\ View.message = "Valuation Unavailable"
           /\ ~View.estimate /\ ~View.range /\ ~View.percentage
    /\ (ListShown /\ properties = <<>>) => View.message = "No recent sales found."

\* the requests of a search are the lookup, then the properties, once each
SingleShot ==
    /\ Len(issued) <= 2
    /\ Len(issued) >= 1 => issued[1].to = "lookup"
    /\ Len(issued) = 2 => issued[2].to = "properties"
    /\ (pc = "idle" /\ issued # <<>>) => Len(issued) = 2

\* C20: the two requests are single-shot with a timeout: a search issues the
\* lookup and then the properties request, once each and without a retry, and
\* a request that gets no response times out, so that no search stays loading
\* for ever.
C20_SingleShotWithTimeout == []SingleShot /\ (loading ~> ~loading)

\* ---------------------------------------------------------------------------
\* The result screen and the search it belongs to
\* ---------------------------------------------------------------------------

\* the selected record is one of the current list, the region is the one the
\* search that produced this list resolved, and no search is running
OfTheListedSearch ==
    /\ selectedProp # null
    /\ selectedProp \in Range(properties)
    /\ region = listRegion
    /\ pc = "idle"

\* C21: in every reachable state with step = 3, selectedProp is non-null and
\* an element of the current properties list, and region is the region key
\* resolved by the same search that produced that list: a property selected
\* in an earlier search is never valued with the region of a later search.
C21_ResultOfOneSearch == step = 3 => OfTheListedSearch

\* a record of the service's list is on the result screen, for a region the
\* lookup resolved
C21_Witness ==
    /\ step = 3 /\ OnHome
    /\ selectedProp \in ServiceRecords
    /\ region = "South East"

\* ---------------------------------------------------------------------------
\* One search at a time
\* ---------------------------------------------------------------------------

\* a step that starts a search: the lookup request goes out
StartsSearch ==
    /\ pc' = "awaitLookup" /\ net' = "pending"
    /\ ~(pc = "awaitLookup" /\ net = "pending" /\ inputPostcode' = inputPostcode)

\* loading is true exactly while a handleSearch is running, and the running
\* handleSearch awaits exactly one request, the last it issued
OneInFlight ==
    /\ loading <=> pc # "idle"
    /\ loading <=> net # "none"
    /\ pc = "awaitLookup" => Len(issued) = 1 /\ issued[1] = Request("lookup", inputPostcode)
    /\ pc = "awaitProperties" => Len(issued) = 2 /\ issued[2].to = "properties"

\* a search starts only while none is running
StartsWhenIdle == StartsSearch => (~loading /\ pc = "idle" /\ net = "none")

\* region is written only by the running search, from the response to its own
\* lookup request
RegionFromRunningSearch ==
    region' # region =>
        (pc = "awaitLookup" /\ net = "settled"
            /\ region' = classify(lookup, inputPostcode).regionKey)

\* properties is written only by the running search, from the response to its
\* own properties request
PropertiesFromRunningSearch ==
    properties' # properties =>
        (pc = "awaitProperties" /\ net = "settled"
            /\ properties' = fetchProperties(propsResponse))

\* C22: a search can be started only while loading is false (the submit
\* control is disabled while loading), so at most one search is in flight at
\* any time, and the response of an earlier search never overwrites the
\* region or properties of a later one.
C22_OneSearchInFlight ==
    /\ []OneInFlight
    /\ [][StartsWhenIdle /\ RegionFromRunningSearch /\ PropertiesFromRunningSearch]_vars

\* a search is in flight while the input already holds another postcode
C22_Witness ==
    /\ loading /\ pc = "awaitProperties" /\ net = "pending"
    /\ OnHome /\ step = 1
    /\ postcode # inputPostcode

\* ---------------------------------------------------------------------------
\* A search comes to its end
\* ---------------------------------------------------------------------------

\* C23: when each network call eventually resolves or rejects, every started
\* search eventually finishes with loading = false and step = 2, whatever
\* combination of success and failure the lookup and the property retrieval
\* come to; no failure leaves the application loading.
C23_SearchFinishes == loading ~> (~loading /\ step = 2)

\* a search of the current variant is finished whose lookup failed (the
\* properties were asked for the postcode as typed) and whose property
\* retrieval failed (the list is the built-in one)
C23_Witness ==
    /\ build = "current"
    /\ ~loading /\ step = 2 /\ pc = "idle"
    /\ Len(issued) = 2 /\ issued[2].postcode = issued[1].postcode
    /\ properties = MOCK_PROPERTIES

\* ---------------------------------------------------------------------------
\* What a search leaves when it completes
\* ---------------------------------------------------------------------------

\* the step in which handleSearch takes the lookup's outcome
TakesLookup == pc = "awaitLookup" /\ net = "settled" /\ pc' = "awaitProperties"

\* region is set from the lookup before the property retrieval starts, the
\* list being still the old one
RegionBeforeProperties ==
    TakesLookup =>
        (/\ region' = classify(lookup, inputPostcode).regionKey
         /\ properties' = properties
         /\ loading'
         /\ Len(issued) = 1
         /\ issued' = Append(issued, Request("properties", issued'[2].postcode))
         /\ net' = "pending")

\* the completed search shows its list on the home page
CompletesOnTheList ==
    TakesProperties =>
        (/\ page' = "home" /\ step' = 2 /\ ~loading'
         /\ properties' = fetchProperties(propsResponse)
         /\ region' = region /\ region = details.regionKey)

\* C24: when a search completes the application is at page 'home', step 2,
\* with loading false and properties equal to that search's list, even if
\* the user navigated to an info page while the search was in flight; region
\* is updated before properties, after the lookup resolves and before the
\* property retrieval starts.
C24_SearchCompletesAtHome == [][RegionBeforeProperties /\ CompletesOnTheList]_vars

\* the properties response has arrived while an info page is shown, region
\* being already the one the lookup resolved
C24_Witness ==
    /\ pc = "awaitProperties" /\ net = "settled"
    /\ page = "privacy"
    /\ region = "London" /\ listRegion = "UK Average"
    /\ propsResponse.outcome = "json" /\ propsResponse.ok /\ Len(propsResponse.body) = 2

\* ---------------------------------------------------------------------------
\* The region the App holds
\* ---------------------------------------------------------------------------

\* region is one of the three keys, and "UK Average" before any search
RegionIsAKey ==
    /\ region \in {"London", "South East", "UK Average"}
    /\ issued = <<>> => region = "UK Average"

\* the key a lookup's outcome stands for: that of the label's text, and
\* "UK Average" for a failed lookup and for a label with neither text
OverwritesRegion ==
    TakesLookup =>
        (/\ (~Succeeded(lookup)) => region' = "UK Average"
         /\ (Succeeded(lookup) /\ ~HasText(Label(lookup), London)
                /\ ~HasText(Label(lookup), SouthEast)) => region' = "UK Average"
         /\ (Succeeded(lookup) /\ HasText(Label(lookup), London)
                /\ ~HasText(Label(lookup), SouthEast)) => region' = "London"
         /\ (Succeeded(lookup) /\ HasText(Label(lookup), SouthEast)
                /\ ~HasText(Label(lookup), London)) => region' = "South East")

\* C25: region is always one of London, South East and UK Average, initially
\* UK Average, and every completed lookup overwrites it: after a search whose
\* lookup fails or returns an unrecognized label, region is UK Average, not
\* the region of the previous search.
C25_RegionOverwritten == []RegionIsAKey /\ [][OverwritesRegion]_vars

\* the list on display came from a London search, and the lookup of the
\* search now running has set region to UK Average
C25_Witness ==
    /\ pc = "awaitProperties"
    /\ listRegion = "London"
    /\ region = "UK Average"

\* ---------------------------------------------------------------------------
\* Growth since the sale
\* ---------------------------------------------------------------------------

\* C26: for every region and every sold year, listed or not, growthFactor is
\* at least 1, so the 'Market Growth' figure shown with a leading '+' is
\* never negative, and the estimate of a property with a known price is never
\* below its last sold price.
C26_GrowthAtLeastOne ==
    Returned =>
        (/\ ret.growthFactor.num >= ret.growthFactor.den
         /\ property.lastSoldPrice > 0 => ret.estimatedValue >= property.lastSoldPrice)

\* ---------------------------------------------------------------------------
\* A sale of the current year
\* ---------------------------------------------------------------------------

\* the fraction 1
One == [num |-> 1, den |-> 1]

\* C27: for every region and every property with lastSoldPrice > 0 whose sold
\* year equals the current year (2024), growthFactor = 1 and estimatedValue
\* = lastSoldPrice.
C27_CurrentYearSaleKeepsPrice ==
    (Returned /\ property.lastSoldPrice > 0 /\ soldYearOf(property) = 2024) =>
        /\ SameRatio(ret.growthFactor, One)
        /\ ret.estimatedValue = property.lastSoldPrice

\* a sale of 2024 outside London, at a price the index scales visibly
C27_Witness ==
    /\ Returned
    /\ property.lastSoldDate = IsoDate(2024, 6, 15)
    /\ property.lastSoldPrice = 4500000
    /\ regionKey = "South East"

\* ---------------------------------------------------------------------------
\* The ends of the series
\* ---------------------------------------------------------------------------

\* the series ends at 2024, with the estimate
EndsAtTheEstimate ==
    LET last == ret.chartData[Len(ret.chartData)]
    IN  last.year = 2024 /\ last.value = ret.estimatedValue

\* the series starts at the sold year, with the last sold price
StartsAtThePrice ==
    LET first == ret.chartData[1]
    IN  first.year = soldYearOf(property) /\ first.value = property.lastSoldPrice

\* C28: whenever the series is non-empty, its last entry is for the current
\* year (2024) and its value equals estimatedValue; when the sold year is a
\* table year, its first entry is for the sold year and its value equals
\* lastSoldPrice.
C28_SeriesEnds ==
    (Returned /\ ret.chartData # <<>>) =>
        /\ EndsAtTheEstimate
        /\ soldYearOf(property) \in DOMAIN indexDataOf(regionKey) => StartsAtThePrice

\* a series of several entries from a table year, for a price that the index
\* scales
C28_Witness ==
    /\ ReturnedSeries
    /\ soldYearOf(property) = 2010
    /\ property.lastSoldPrice = 4500000
    /\ Len(ret.chartData) = 15
    /\ ret.estimatedValue > property.lastSoldPrice

\* ---------------------------------------------------------------------------
\* The wizard's steps
\* ---------------------------------------------------------------------------

\* a control of the home page is used: no search starts, goes on or ends
UsesControl == OnHome /\ page' = page /\ pc' = pc /\ net' = net

\* the ways step changes
StepMoves ==
    step' # step =>
        \/ step = 1 /\ step' = 2 /\ TakesProperties
        \/ step = 2 /\ step' = 3 /\ UsesControl /\ selectedProp' \in Range(properties)
        \/ step = 2 /\ step' = 1 /\ UsesControl
        \/ step = 3 /\ step' = 1 /\ UsesControl
        \/ step = 3 /\ step' = 2 /\ UsesControl

\* page navigation: the page changes and no search completes
Navigation ==
    (page' # page /\ ~TakesProperties) =>
        UNCHANGED <<step, region, properties, selectedProp>>

\* C29: step is always 1, 2 or 3 and changes only by these transitions:
\* 1 to 2 when a search completes, 2 to 3 when a property of the list is
\* selected, and 2 to 1, 3 to 1 and 3 to 2 by the back controls; never 1 to 3
\* directly; page navigation leaves step, region, properties and
\* selectedProp unchanged.
C29_StepTransitions == [](step \in {1, 2, 3}) /\ [][StepMoves /\ Navigation]_vars

\* an info page is shown over the result of a valuation
C29_Witness ==
    /\ page = "how-it-works"
    /\ step = 3 /\ selectedProp \in Range(properties)
    /\ region = "London"

\* ---------------------------------------------------------------------------
\* The sold year of a date-only string
\* ---------------------------------------------------------------------------

\* C30: for a lastSoldDate given as a date-only string YYYY-MM-DD, the
\* soldYear used by calculateValuation is the calendar year YYYY in every
\* environment timezone, including dates on 1 January and 31 December: the
\* growth factor is that of the index of YYYY.
C30_SoldYearIsCalendarYear ==
    (Returned /\ property.lastSoldDate.kind = "date") =>
        /\ soldYearOf(property) = property.lastSoldDate.y
        /\ SameRatio(ret.growthFactor,
                     [num |-> IndexFor(regionKey, 2024),
                      den |-> IndexFor(regionKey, property.lastSoldDate.y)])

====
